---- MODULE Spec2Model ----
(***************************************************************************)
(* Model of the single-image loader of MCUboot's Zephyr port               *)
(* (boot/zephyr/single_loader.c): boot_image_validate,                     *)
(* boot_image_validate_once and boot_go.                                   *)
(*                                                                         *)
(* One behaviour is one build (cfg is fixed in Init) running a bounded     *)
(* number of boot attempts.  Every collaborator call (flash area, header   *)
(* reader, validator, swap-state store, RAM loader, boot record) is a      *)
(* step whose outcome is drawn from a small set, and is appended to the    *)
(* call log of the attempt.  RAM is lost on Reboot, the swap state in      *)
(* flash is kept.                                                          *)
(***************************************************************************)
EXTENDS Integers, Sequences, FiniteSets

VARIABLES
    cfg,          \* build configuration (the preprocessor symbols)
    pc,           \* position of boot_go in the current attempt
    _fa_p,        \* static const struct flash_area *_fa_p
    _hdr,         \* static struct image_header _hdr
    rc,           \* boot_go: int rc
    fih_rc,       \* boot_go: fih_ret fih_rc
    state,        \* boot_image_validate_once: static struct boot_swap_state
    once_fih_rc,  \* boot_image_validate_once: fih_ret fih_rc
    sram_state,   \* boot_go (MCUBOOT_RAM_LOAD): static struct boot_loader_state
    rsp,          \* the caller's struct boot_rsp
    ret,          \* value boot_go returned (meaningful when pc = "done")
    swap,         \* the swap state kept in flash: magic and image_ok
    sram,         \* what the RAM loader has left in executable RAM
    calls,        \* call log of the current attempt
    swap0,        \* swap state in flash when the attempt started
    validated,    \* bootutil_img_validate has returned FIH_SUCCESS at least once
    attempt,      \* number of the current boot attempt
    fault,        \* bit faults injected into fih_rc: the sentinel hit, how many
    prev_partial  \* the previous attempt wrote the magic and failed to write image_ok

vars == << cfg, pc, _fa_p, _hdr, rc, fih_rc, state, once_fih_rc, sram_state,
           rsp, ret, swap, sram, calls, swap0, validated, attempt, fault,
           prev_partial >>

(***************************************************************************)
(* Bounds of the model.                                                    *)
(***************************************************************************)
MaxAttempts == 2
MaxFaults == 2

(***************************************************************************)
(* Constants of the headers this file includes.                            *)
(***************************************************************************)
FIH_SUCCESS == 447392426
\* a failure sentinel one bit away from the success sentinel
FIH_FAILURE_adjacent == FIH_SUCCESS + 1

FIH_FAILURE == 357913941
FihBits == 32
BOOT_MAGIC_GOOD == 1
BOOT_MAGIC_BAD == 2
BOOT_MAGIC_UNSET == 3
BOOT_FLAG_SET == 1
BOOT_FLAG_BAD == 2
BOOT_FLAG_UNSET == 3
IMAGE_F_PIC == 1
IMAGE_F_ENCRYPTED_AES128 == 4
IMAGE_F_ENCRYPTED_AES256 == 8
ENCRYPTIONFLAGS == IMAGE_F_ENCRYPTED_AES128 + IMAGE_F_ENCRYPTED_AES256
FlagBits == 8

FIH_NOT_EQ(x, y) == x # y

(***************************************************************************)
(* Bitwise operations on the low FlagBits bits of ih_flags.                *)
(***************************************************************************)
RECURSIVE BitAnd(_, _, _)
BitAnd(x, y, n) ==
    IF n = 0 THEN 0
    ELSE (x % 2) * (y % 2) + 2 * BitAnd(x \div 2, y \div 2, n - 1)

RECURSIVE BitNot(_, _)
BitNot(x, n) ==
    IF n = 0 THEN 0
    ELSE (1 - (x % 2)) + 2 * BitNot(x \div 2, n - 1)

RECURSIVE Pow2(_)
Pow2(b) == IF b = 0 THEN 1 ELSE 2 * Pow2(b - 1)

\* x with bit b flipped, x a two's complement int of FihBits bits; the top bit
\* is the sign bit
FlipBit(x, b) ==
    IF b = FihBits - 1
    THEN (IF x >= 0 THEN (x - Pow2(b - 1)) - Pow2(b - 1)
          ELSE (x + Pow2(b - 1)) + Pow2(b - 1))
    ELSE (IF (x \div Pow2(b)) % 2 = 1 THEN x - Pow2(b) ELSE x + Pow2(b))

IS_ENCRYPTED(hdr) ==
    \/ BitAnd(hdr.ih_flags, IMAGE_F_ENCRYPTED_AES128, FlagBits) # 0
    \/ BitAnd(hdr.ih_flags, IMAGE_F_ENCRYPTED_AES256, FlagBits) # 0

(***************************************************************************)
(* Values the collaborators are given and return.                          *)
(***************************************************************************)
NULL == "NULL"
PRIMARY == "FLASH_AREA_IMAGE_PRIMARY(0)"
HDR_ADDR == "&_hdr"
Region == [dev_id |-> 1, off |-> 48]

RcVals == {0, -1, 1}
FihVals == {FIH_SUCCESS, FIH_FAILURE, 0}
HdrFlagVals == {0,
                IMAGE_F_ENCRYPTED_AES128,
                IMAGE_F_PIC + IMAGE_F_ENCRYPTED_AES256,
                ENCRYPTIONFLAGS}
Headers == [ih_flags : HdrFlagVals, ih_img_size : {16}]
ZeroHdr == [ih_flags |-> 0, ih_img_size |-> 0]
SwapStates == [magic : {BOOT_MAGIC_GOOD, BOOT_MAGIC_BAD, BOOT_MAGIC_UNSET},
               image_ok : {BOOT_FLAG_SET, BOOT_FLAG_BAD, BOOT_FLAG_UNSET}]
ZeroState == [magic |-> 0, image_ok |-> 0]
ZeroLoader == [area |-> NULL, hdr |-> ZeroHdr]
RspUnset == [br_flash_dev_id |-> -1, br_image_off |-> -1, br_hdr |-> NULL]
Trusted == [magic |-> BOOT_MAGIC_GOOD, image_ok |-> BOOT_FLAG_SET]
NoFault == [of |-> FIH_FAILURE, n |-> 0]

Configs == [validate : {"always", "once", "skip"},
            ram_load : BOOLEAN,
            measured_boot : BOOLEAN,
            data_sharing : BOOLEAN,
            assert_on : BOOLEAN]

Call(op, fa, arg, r) == [op |-> op, fa |-> fa, arg |-> arg, ret |-> r]

(***************************************************************************)
(* The region accessor: device id and offset of the primary region.  The   *)
(* collaborators are modelled by their contract on the primary region; the *)
(* handle each of them is given (NULL when flash_area_open failed and the  *)
(* assertion is compiled out) is kept in the call log.                     *)
(***************************************************************************)
flash_area_get_device_id(fa) == Region.dev_id
flash_area_get_off(fa) == Region.off

\* boot_image_validate without the clearing of the encryption flags
boot_image_validate_keeps_flags(hdr, v) == [hdr |-> hdr, fih_rc |-> v]

\* boot_image_validate clearing every flag of an encrypted header
boot_image_validate_clears_all(hdr, v) ==
    [hdr |-> IF IS_ENCRYPTED(hdr) THEN [hdr EXCEPT !.ih_flags = 0] ELSE hdr,
     fih_rc |-> v]

(***************************************************************************)
(* boot_image_validate: clears the encryption flags of the header it is    *)
(* given when the header is marked encrypted, then returns whatever        *)
(* bootutil_img_validate returns for that header (v).                      *)
(***************************************************************************)
boot_image_validate(hdr, v) ==
    LET h == IF IS_ENCRYPTED(hdr)
             THEN [hdr EXCEPT !.ih_flags =
                      BitAnd(@, BitNot(ENCRYPTIONFLAGS, FlagBits), FlagBits)]
             ELSE hdr
    IN [hdr |-> h, fih_rc |-> v]

\* The log of one call of boot_image_validate: the validator's call, with the
\* flags it was shown, then the return, with the flags on entry.
ValidateCalls(fa, hdr, v) ==
    LET res == boot_image_validate(hdr, v)
    IN << Call("bootutil_img_validate", fa, res.hdr.ih_flags, v),
          Call("boot_image_validate", fa, hdr.ih_flags, res.fih_rc) >>

(***************************************************************************)
(* boot_image_validate_once: its three decisions.                          *)
(***************************************************************************)
\* the test of the swap state made unconditional: validates on every boot
OnceMustValidate_always(st) == TRUE

\* the test of the swap state dropped: never validates
OnceMustValidate_never(st) == FALSE

\* the image has to be validated in this attempt
OnceMustValidate(st) ==
    st.magic # BOOT_MAGIC_GOOD \/ st.image_ok # BOOT_FLAG_SET

\* the check of the validator's result dropped
OnceAfterValidate_unchecked(f, st) ==
    IF st.magic # BOOT_MAGIC_GOOD THEN "once_write_magic"
    ELSE "once_write_image_ok"

\* the test of state.magic dropped: the magic is written on every validation
OnceAfterValidate_always_magic(f, st) ==
    IF FIH_NOT_EQ(f, FIH_SUCCESS) THEN "once_fail" ELSE "once_write_magic"

\* the result of boot_read_swap_state ignored
OnceAfterRead_unchecked(r, st) ==
    IF OnceMustValidate(st) THEN "once_validate" ELSE "once_done"

\* rc = boot_read_swap_state(...); if (rc != 0) FIH_RET(FIH_FAILURE);
\* then the test of state.magic and state.image_ok
OnceAfterRead(r, st) ==
    IF r # 0 THEN "once_fail"
    ELSE IF OnceMustValidate(st) THEN "once_validate" ELSE "once_done"

\* where boot_image_validate_once goes when boot_image_validate returned f
OnceAfterValidate(f, st) ==
    IF FIH_NOT_EQ(f, FIH_SUCCESS) THEN "once_fail"
    ELSE IF st.magic # BOOT_MAGIC_GOOD THEN "once_write_magic"
    ELSE "once_write_image_ok"

\* the check of boot_write_magic's result dropped
OnceAfterMagic_unchecked(r) == "once_write_image_ok"

\* where it goes when boot_write_magic returned r
OnceAfterMagic(r) == IF r # 0 THEN "once_fail" ELSE "once_write_image_ok"

(***************************************************************************)
(* boot_go: where each step leads.                                         *)
(***************************************************************************)
EvidencePc ==
    IF cfg.measured_boot THEN "save_boot_status"
    ELSE IF cfg.data_sharing THEN "save_shared_data"
    ELSE "rsp"

AfterBootStatus == IF cfg.data_sharing THEN "save_shared_data" ELSE "rsp"

AuthPc ==
    CASE cfg.validate = "always" -> "validate"
      [] cfg.validate = "once" -> "once_read"
      [] OTHER -> "skip"

AfterOpen(r) ==
    IF r # 0 /\ cfg.assert_on THEN "panic" ELSE "load_header"

\* the check of boot_image_load_header's result dropped
AfterLoadHeader_unchecked(r) == IF cfg.ram_load THEN "load_sram" ELSE AuthPc

AfterLoadHeader(r) ==
    IF r # 0 THEN "out"
    ELSE IF cfg.ram_load THEN "load_sram" ELSE AuthPc

AfterLoadSram(r) == IF r # 0 THEN "out" ELSE AuthPc

\* the goto out of the failure branch dropped
AfterAuth_falls_through(f) ==
    IF cfg.measured_boot THEN "save_boot_status"
    ELSE IF cfg.data_sharing THEN "save_shared_data"
    ELSE "rsp"

\* the test of the Authenticate step's result inverted
AfterAuth_inverted(f) ==
    IF FIH_NOT_EQ(f, FIH_SUCCESS)
    THEN (IF cfg.measured_boot THEN "save_boot_status"
          ELSE IF cfg.data_sharing THEN "save_shared_data"
          ELSE "rsp")
    ELSE "out"

\* if (FIH_NOT_EQ(fih_rc, FIH_SUCCESS)) { ...; goto out; }
AfterAuth(f) == IF FIH_NOT_EQ(f, FIH_SUCCESS) THEN "out" ELSE EvidencePc

\* the branch taken when the Authenticate step did not return FIH_SUCCESS
AuthFailCalls(c) ==
    IF cfg.ram_load
    THEN Append(c, Call("boot_remove_image_from_sram", sram_state.area, 0, 0))
    ELSE c

\* the failure branch without boot_remove_image_from_sram's effect
AuthFailSram_keeps_image(s) == s

AuthFailSram(s) == IF cfg.ram_load THEN "none" ELSE s

\* boot_go after FIH_CALL(boot_image_validate / boot_image_validate_once)
\* has put f in fih_rc, the log being c
AuthReturn(f, c) ==
    /\ fih_rc' = f
    /\ pc' = AfterAuth(f)
    /\ IF FIH_NOT_EQ(f, FIH_SUCCESS)
       THEN /\ calls' = AuthFailCalls(c)
            /\ sram' = AuthFailSram(sram)
       ELSE /\ calls' = c
            /\ sram' = sram

\* The RAM loader: what boot_load_image_to_sram leaves in executable RAM when
\* it returns r; a failed copy may have been partially done.
boot_load_image_to_sram(r) ==
    IF r = 0 THEN {"staged"} ELSE {"none", "partial"}

\* The swap-state store: the record after boot_write_magic and after
\* boot_write_image_ok returned r; a write is atomic per field, a failed
\* write leaves the field as it was.
boot_write_magic(sw, r) ==
    IF r = 0 THEN [sw EXCEPT !.magic = BOOT_MAGIC_GOOD] ELSE sw

\* a failed write of image_ok that leaves a torn flag behind
boot_write_image_ok_torn(sw, r) ==
    IF r = 0 THEN [sw EXCEPT !.image_ok = BOOT_FLAG_SET]
    ELSE [sw EXCEPT !.image_ok = BOOT_FLAG_BAD]

boot_write_image_ok(sw, r) ==
    IF r = 0 THEN [sw EXCEPT !.image_ok = BOOT_FLAG_SET] ELSE sw

\* device id and offset exchanged
boot_rsp_exchanged(fa) ==
    [br_flash_dev_id |-> Region.off,
     br_image_off |-> Region.dev_id,
     br_hdr |-> HDR_ADDR]

\* the response boot_go assembles
boot_rsp(fa) ==
    [br_flash_dev_id |-> flash_area_get_device_id(fa),
     br_image_off |-> flash_area_get_off(fa),
     br_hdr |-> HDR_ADDR]

(***************************************************************************)
(* Initial state: a build, a swap state left in flash that is not yet      *)
(* {GOOD, SET}, zeroed statics, boot_go entered (rc = -1, fih_rc =         *)
(* FIH_FAILURE).                                                           *)
(***************************************************************************)
Init ==
    /\ cfg \in Configs
    /\ swap \in SwapStates \ {Trusted}
    /\ swap0 = swap
    /\ pc = "open"
    /\ _fa_p = NULL
    /\ _hdr = ZeroHdr
    /\ rc = -1
    /\ fih_rc = FIH_FAILURE
    /\ state = ZeroState
    /\ once_fih_rc = FIH_FAILURE
    /\ sram_state = ZeroLoader
    /\ rsp = RspUnset
    /\ ret = 0
    /\ sram = "none"
    /\ calls = << >>
    /\ validated = FALSE
    /\ attempt = 1
    /\ fault = NoFault
    /\ prev_partial = FALSE

(***************************************************************************)
(* boot_go, step by step.                                                  *)
(***************************************************************************)
\* rc = flash_area_open(FLASH_AREA_IMAGE_PRIMARY(0), &_fa_p); assert(rc == 0);
boot_go_open ==
    /\ pc = "open"
    /\ \E r \in RcVals :
         /\ rc' = r
         /\ _fa_p' = IF r = 0 THEN PRIMARY ELSE _fa_p
         /\ calls' = Append(calls, Call("flash_area_open", PRIMARY, 0, r))
         /\ pc' = AfterOpen(r)
    /\ UNCHANGED << cfg, _hdr, fih_rc, state, once_fih_rc, sram_state, rsp,
                    ret, swap, sram, swap0, validated, attempt, fault,
                    prev_partial >>

\* rc = boot_image_load_header(_fa_p, &_hdr); if (rc != 0) goto out;
boot_go_load_header ==
    /\ pc = "load_header"
    /\ \E r \in RcVals, h \in Headers :
         /\ rc' = r
         /\ _hdr' \in (IF r = 0 THEN {h} ELSE {h, _hdr})
         /\ calls' = Append(calls, Call("boot_image_load_header", _fa_p,
                                        _hdr'.ih_flags, r))
         /\ pc' = AfterLoadHeader(r)
    /\ UNCHANGED << cfg, _fa_p, fih_rc, state, once_fih_rc, sram_state, rsp,
                    ret, swap, sram, swap0, validated, attempt, fault,
                    prev_partial >>

\* MCUBOOT_RAM_LOAD: rc = boot_load_image_to_sram(&state); if (rc != 0) goto out;
boot_go_load_sram ==
    /\ pc = "load_sram"
    /\ sram_state' = [area |-> _fa_p, hdr |-> _hdr]
    /\ \E r \in RcVals :
         /\ rc' = r
         /\ sram' \in boot_load_image_to_sram(r)
         /\ calls' = Append(calls, Call("boot_load_image_to_sram", _fa_p, 0, r))
         /\ pc' = AfterLoadSram(r)
    /\ UNCHANGED << cfg, _fa_p, _hdr, fih_rc, state, once_fih_rc, rsp, ret,
                    swap, swap0, validated, attempt, fault,
                    prev_partial >>

\* MCUBOOT_VALIDATE_PRIMARY_SLOT: FIH_CALL(boot_image_validate, ...)
boot_go_validate ==
    /\ pc = "validate"
    /\ \E v \in FihVals :
         LET res == boot_image_validate(_hdr, v)
         IN /\ _hdr' = res.hdr
            /\ validated' = (validated \/ v = FIH_SUCCESS)
            /\ AuthReturn(res.fih_rc, calls \o ValidateCalls(_fa_p, _hdr, v))
    /\ UNCHANGED << cfg, _fa_p, rc, state, once_fih_rc, sram_state, rsp, ret,
                    swap, swap0, attempt, fault,
                    prev_partial >>

\* no validation configured: fih_rc = FIH_SUCCESS;
boot_go_skip ==
    /\ pc = "skip"
    /\ fih_rc' = FIH_SUCCESS
    /\ pc' = EvidencePc
    /\ UNCHANGED << cfg, _fa_p, _hdr, rc, state, once_fih_rc, sram_state, rsp,
                    ret, swap, sram, calls, swap0, validated, attempt, fault,
                    prev_partial >>

(***************************************************************************)
(* MCUBOOT_VALIDATE_PRIMARY_SLOT_ONCE:                                     *)
(* FIH_CALL(boot_image_validate_once, fih_rc, _fa_p, &_hdr), step by step. *)
(***************************************************************************)
\* boot_image_validate_once returns f to boot_go, the log being c
OnceReturn(f, c) ==
    AuthReturn(f, Append(c, Call("boot_image_validate_once", _fa_p, 0, f)))

\* memset(&state, 0, ...); rc = boot_read_swap_state(fa_p, &state);
\* if (rc != 0) FIH_RET(FIH_FAILURE); the test of state.magic and state.image_ok
once_read_swap_state ==
    /\ pc = "once_read"
    /\ \E r \in RcVals :
         LET c == Append(calls, Call("boot_read_swap_state", _fa_p, 0, r))
         IN /\ state' \in (IF r # 0
                         THEN {ZeroState, [ZeroState EXCEPT !.magic = swap.magic]}
                         ELSE {swap})
            /\ CASE OnceAfterRead(r, state') = "once_fail" ->
                       OnceReturn(FIH_FAILURE, c)
                 [] OnceAfterRead(r, state') = "once_done" ->
                       OnceReturn(FIH_SUCCESS, c)
                 [] OTHER ->
                       /\ pc' = "once_validate"
                       /\ calls' = c
                       /\ UNCHANGED << fih_rc, sram >>
    /\ once_fih_rc' = FIH_FAILURE
    /\ UNCHANGED << cfg, _fa_p, _hdr, rc, sram_state, rsp, ret, swap, swap0,
                    validated, attempt, fault,
                    prev_partial >>

\* FIH_CALL(boot_image_validate, fih_rc, fa_p, hdr);
\* if (FIH_NOT_EQ(fih_rc, FIH_SUCCESS)) FIH_RET(FIH_FAILURE);
once_validate ==
    /\ pc = "once_validate"
    /\ \E v \in FihVals :
         LET res == boot_image_validate(_hdr, v)
             c == calls \o ValidateCalls(_fa_p, _hdr, v)
             next == OnceAfterValidate(res.fih_rc, state)
         IN /\ _hdr' = res.hdr
            /\ once_fih_rc' = res.fih_rc
            /\ validated' = (validated \/ v = FIH_SUCCESS)
            /\ IF next = "once_fail"
               THEN OnceReturn(FIH_FAILURE, c)
               ELSE /\ pc' = next
                    /\ calls' = c
                    /\ UNCHANGED << fih_rc, sram >>
    /\ UNCHANGED << cfg, _fa_p, rc, state, sram_state, rsp, ret, swap, swap0,
                    attempt, fault,
                    prev_partial >>

\* rc = boot_write_magic(fa_p); if (rc != 0) FIH_RET(FIH_FAILURE);
once_write_magic ==
    /\ pc = "once_write_magic"
    /\ \E r \in RcVals :
         LET c == Append(calls, Call("boot_write_magic", _fa_p, 0, r))
             next == OnceAfterMagic(r)
         IN /\ swap' = boot_write_magic(swap, r)
            /\ IF next = "once_fail"
               THEN OnceReturn(FIH_FAILURE, c)
               ELSE /\ pc' = next
                    /\ calls' = c
                    /\ UNCHANGED << fih_rc, sram >>
    /\ UNCHANGED << cfg, _fa_p, _hdr, rc, state, once_fih_rc, sram_state, rsp,
                    ret, swap0, validated, attempt, fault,
                    prev_partial >>

\* rc = boot_write_image_ok(fa_p); if (rc != 0) FIH_RET(FIH_FAILURE);
\* FIH_RET(FIH_SUCCESS);
once_write_image_ok ==
    /\ pc = "once_write_image_ok"
    /\ \E r \in RcVals :
         LET c == Append(calls, Call("boot_write_image_ok", _fa_p, 0, r))
         IN /\ swap' = boot_write_image_ok(swap, r)
            /\ OnceReturn(IF r # 0 THEN FIH_FAILURE ELSE FIH_SUCCESS, c)
    /\ UNCHANGED << cfg, _fa_p, _hdr, rc, state, once_fih_rc, sram_state, rsp,
                    ret, swap0, validated, attempt, fault,
                    prev_partial >>

(***************************************************************************)
(* boot_go after the Authenticate step.                                    *)
(***************************************************************************)
\* MCUBOOT_MEASURED_BOOT: rc = boot_save_boot_status(0, &_hdr, _fa_p);
\* if (rc != 0) return rc;
boot_go_save_boot_status ==
    /\ pc = "save_boot_status"
    /\ \E r \in RcVals :
         /\ rc' = r
         /\ calls' = Append(calls, Call("boot_save_boot_status", _fa_p, 0, r))
         /\ IF r # 0
            THEN pc' = "done" /\ ret' = r
            ELSE pc' = AfterBootStatus /\ ret' = ret
    /\ UNCHANGED << cfg, _fa_p, _hdr, fih_rc, state, once_fih_rc, sram_state,
                    rsp, swap, sram, swap0, validated, attempt, fault,
                    prev_partial >>

\* MCUBOOT_DATA_SHARING: rc = boot_save_shared_data(&_hdr, _fa_p, 0, NULL);
\* if (rc != 0) return rc;
boot_go_save_shared_data ==
    /\ pc = "save_shared_data"
    /\ \E r \in RcVals :
         /\ rc' = r
         /\ calls' = Append(calls, Call("boot_save_shared_data", _fa_p, 0, r))
         /\ IF r # 0
            THEN pc' = "done" /\ ret' = r
            ELSE pc' = "rsp" /\ ret' = ret
    /\ UNCHANGED << cfg, _fa_p, _hdr, fih_rc, state, once_fih_rc, sram_state,
                    rsp, swap, sram, swap0, validated, attempt, fault,
                    prev_partial >>

\* rsp->br_flash_dev_id = ...; rsp->br_image_off = ...; rsp->br_hdr = &_hdr;
boot_go_rsp ==
    /\ pc = "rsp"
    /\ rsp' = boot_rsp(_fa_p)
    /\ calls' = calls \o
          << Call("flash_area_get_device_id", _fa_p, 0, flash_area_get_device_id(_fa_p)),
             Call("flash_area_get_off", _fa_p, 0, flash_area_get_off(_fa_p)) >>
    /\ pc' = "out"
    /\ UNCHANGED << cfg, _fa_p, _hdr, rc, fih_rc, state, once_fih_rc,
                    sram_state, ret, swap, sram, swap0, validated, attempt, fault,
                    prev_partial >>

\* out: flash_area_close(_fa_p); FIH_RET(fih_rc);
boot_go_out ==
    /\ pc = "out"
    /\ calls' = Append(calls, Call("flash_area_close", _fa_p, 0, 0))
    /\ ret' = fih_rc
    /\ pc' = "done"
    /\ UNCHANGED << cfg, _fa_p, _hdr, rc, fih_rc, state, once_fih_rc,
                    sram_state, rsp, swap, sram, swap0, validated, attempt, fault,
                    prev_partial >>

(***************************************************************************)
(* The next power-on cycle: the statics are zeroed again, executable RAM   *)
(* is lost, the swap state in flash stays, boot_go is entered again.       *)
(***************************************************************************)
Reboot ==
    /\ pc \in {"done", "panic"}
    /\ attempt < MaxAttempts
    /\ attempt' = attempt + 1
    /\ pc' = "open"
    /\ _fa_p' = NULL
    /\ _hdr' = ZeroHdr
    /\ rc' = -1
    /\ fih_rc' = FIH_FAILURE
    /\ state' = ZeroState
    /\ once_fih_rc' = FIH_FAILURE
    /\ sram_state' = ZeroLoader
    /\ rsp' = RspUnset
    /\ ret' = 0
    /\ sram' = "none"
    /\ calls' = << >>
    /\ swap0' = swap
    /\ prev_partial' =
          (\E i, j \in DOMAIN calls :
              /\ calls[i].op = "boot_write_magic" /\ calls[i].ret = 0
              /\ calls[j].op = "boot_write_image_ok" /\ calls[j].ret # 0)
    /\ UNCHANGED << cfg, swap, validated, fault >>

Next ==
    \/ boot_go_open
    \/ boot_go_load_header
    \/ boot_go_load_sram
    \/ boot_go_validate
    \/ boot_go_skip
    \/ once_read_swap_state
    \/ once_validate
    \/ once_write_magic
    \/ once_write_image_ok
    \/ boot_go_save_boot_status
    \/ boot_go_save_shared_data
    \/ boot_go_rsp
    \/ boot_go_out
    \/ Reboot

Spec == Init /\ [][Next]_vars

(***************************************************************************)
(* The hardened result under fault injection: fih_rc holds one of the two  *)
(* sentinels the functions of this file return, and each step flips one    *)
(* of its FihBits bits.                                                    *)
(***************************************************************************)
FihInit ==
    /\ cfg = [validate |-> "always", ram_load |-> FALSE, measured_boot |-> FALSE,
              data_sharing |-> FALSE, assert_on |-> TRUE]
    /\ swap = [magic |-> BOOT_MAGIC_UNSET, image_ok |-> BOOT_FLAG_UNSET]
    /\ swap0 = swap
    /\ pc = "fih"
    /\ _fa_p = NULL
    /\ _hdr = ZeroHdr
    /\ rc = -1
    /\ fih_rc \in {FIH_SUCCESS, FIH_FAILURE}
    /\ fault = [of |-> fih_rc, n |-> 0]
    /\ state = ZeroState
    /\ once_fih_rc = FIH_FAILURE
    /\ sram_state = ZeroLoader
    /\ rsp = RspUnset
    /\ ret = 0
    /\ sram = "none"
    /\ calls = << >>
    /\ validated = FALSE
    /\ attempt = 1
    /\ prev_partial = FALSE

FihFlip ==
    /\ pc = "fih"
    /\ fault.n < MaxFaults
    /\ \E b \in 0..(FihBits - 1) :
          fih_rc' = FlipBit(fih_rc, b)
    /\ fault' = [fault EXCEPT !.n = @ + 1]
    /\ UNCHANGED << cfg, pc, _fa_p, _hdr, rc, state, once_fih_rc, sram_state,
                    rsp, ret, swap, sram, calls, swap0, validated, attempt,
                    prev_partial >>

FihNext == FihFlip

FihSpec == FihInit /\ [][FihNext]_vars

(***************************************************************************)
(* Vocabulary of the properties: what the call log of the attempt holds.   *)
(***************************************************************************)
Count(op) == Cardinality({i \in DOMAIN calls : calls[i].op = op})
Returned(op, r) == \E i \in DOMAIN calls : calls[i].op = op /\ calls[i].ret = r
Failed(op, ok) == \E i \in DOMAIN calls : calls[i].op = op /\ calls[i].ret # ok
Encrypted(flags) == IS_ENCRYPTED([ih_flags |-> flags])
Opened == _fa_p = PRIMARY /\ Returned("flash_area_open", 0)
ClosedOnce ==
    /\ Count("flash_area_close") = 1
    /\ \A i \in DOMAIN calls : calls[i].op = "flash_area_close" => calls[i].fa = _fa_p
EvidenceFailed ==
    Failed("boot_save_boot_status", 0) \/ Failed("boot_save_shared_data", 0)
RspOfRegion ==
    [br_flash_dev_id |-> Region.dev_id, br_image_off |-> Region.off,
     br_hdr |-> HDR_ADDR]
AuthOp ==
    IF cfg.validate = "once" THEN "boot_image_validate_once"
    ELSE "boot_image_validate"
AuthFailed == Failed(AuthOp, FIH_SUCCESS)

(***************************************************************************)
(* C1: in every build and for every outcome of the collaborators,          *)
(* flash_area_close is called exactly once, on the handle boot_go opened,  *)
(* before boot_go returns.                                                 *)
(***************************************************************************)
C1_ClosedOnceOnEveryReturn == (Opened /\ pc = "done") => ClosedOnce

OnceTrustedRead ==
    /\ cfg.validate = "once"
    /\ Returned("boot_read_swap_state", 0)
    /\ state.magic = BOOT_MAGIC_GOOD
    /\ state.image_ok = BOOT_FLAG_SET

C3_ValidateOnceIdempotent ==
    OnceTrustedRead =>
       /\ Count("bootutil_img_validate") = 0
       /\ Count("boot_image_validate") = 0
       /\ Count("boot_write_magic") = 0
       /\ Count("boot_write_image_ok") = 0
       /\ Count("boot_image_validate_once") = 1
       /\ Returned("boot_image_validate_once", FIH_SUCCESS)
       /\ fih_rc = FIH_SUCCESS
       /\ swap = Trusted

C3_Witness ==
    /\ Opened
    /\ OnceTrustedRead
    /\ attempt > 1
    /\ pc = "done"
    /\ ret = FIH_SUCCESS

(***************************************************************************)
(* C4: an attempt in which the validator returned a value other than       *)
(* FIH_SUCCESS calls neither boot_write_magic nor boot_write_image_ok, and *)
(* the persisted record is the one the attempt started with.               *)
(***************************************************************************)
C4_FailedAuthKeepsRecord ==
    Failed("bootutil_img_validate", FIH_SUCCESS) =>
       /\ Count("boot_write_magic") = 0
       /\ Count("boot_write_image_ok") = 0
       /\ swap = swap0

C4_Witness ==
    /\ Opened
    /\ cfg.validate = "once"
    /\ Failed("bootutil_img_validate", FIH_SUCCESS)
    /\ swap0.magic = BOOT_MAGIC_GOOD
    /\ pc = "done"

(***************************************************************************)
(* C5: boot_go writes the three fields of rsp if and only if it returns    *)
(* FIH_SUCCESS; on a failing attempt rsp is left as it was, on a           *)
(* successful one it holds the region's device id, the region's offset     *)
(* and the address of the header.                                          *)
(***************************************************************************)
C5_ResponseOnlyOnSuccess ==
    /\ rsp # RspUnset => fih_rc = FIH_SUCCESS
    /\ pc = "done" =>
          /\ (rsp # RspUnset) <=> (ret = FIH_SUCCESS)
          /\ (Count("flash_area_get_device_id") > 0) <=> (ret = FIH_SUCCESS)
          /\ ret # FIH_SUCCESS => rsp = RspUnset
          /\ ret = FIH_SUCCESS => rsp = RspOfRegion

C5_Witness ==
    /\ Opened
    /\ pc = "done"
    /\ ret = FIH_SUCCESS
    /\ rsp = RspOfRegion
    /\ Count("bootutil_img_validate") = 1

(***************************************************************************)
(* C6: with RAM staging, whenever the Authenticate step returns a value    *)
(* other than FIH_SUCCESS, boot_remove_image_from_sram is called on the    *)
(* staged state before boot_go returns, and no image is left staged.       *)
(***************************************************************************)
C6_RejectedImageUnstaged ==
    (cfg.ram_load /\ AuthFailed) =>
       /\ Count("boot_remove_image_from_sram") = 1
       /\ \A i \in DOMAIN calls :
             calls[i].op = "boot_remove_image_from_sram" =>
                /\ calls[i].fa = sram_state.area
                /\ \A j \in DOMAIN calls :
                      calls[j].op = "flash_area_close" => i < j
       /\ sram = "none"
       /\ pc \in {"out", "done"}

C6_Witness ==
    /\ Opened
    /\ cfg.ram_load
    /\ AuthFailed
    /\ Returned("boot_load_image_to_sram", 0)
    /\ pc = "done"

(***************************************************************************)
(* C7: when boot_image_load_header fails, the attempt reaches none of      *)
(* staging, the Authenticate step, the swap-state read and writes,         *)
(* evidence recording and response assembly; the region is released and    *)
(* boot_go returns FIH_FAILURE.                                            *)
(***************************************************************************)
AfterHeaderOps ==
    {"boot_load_image_to_sram", "boot_remove_image_from_sram",
     "bootutil_img_validate", "boot_image_validate", "boot_image_validate_once",
     "boot_read_swap_state", "boot_write_magic", "boot_write_image_ok",
     "boot_save_boot_status", "boot_save_shared_data",
     "flash_area_get_device_id", "flash_area_get_off"}

C7_HeaderFailureAborts ==
    Failed("boot_image_load_header", 0) =>
       /\ \A i \in DOMAIN calls : calls[i].op \notin AfterHeaderOps
       /\ rsp = RspUnset
       /\ swap = swap0
       /\ pc \in {"out", "done"}
       /\ pc = "done" => (ClosedOnce /\ ret = FIH_FAILURE)

C7_Witness ==
    /\ Opened
    /\ Failed("boot_image_load_header", 0)
    /\ pc = "done"
    /\ ret = FIH_FAILURE

(***************************************************************************)
(* C8: when boot_save_boot_status or boot_save_shared_data fails, boot_go  *)
(* returns a value that is not FIH_SUCCESS, the remaining steps are        *)
(* skipped, and the region is still released (stated for the attempts      *)
(* whose region was opened).                                               *)
(***************************************************************************)
C8_EvidenceFailureReportedAndReleased ==
    (Opened /\ EvidenceFailed /\ pc = "done") =>
       /\ ret # FIH_SUCCESS
       /\ rsp = RspUnset
       /\ ClosedOnce

(***************************************************************************)
(* C9 as stated: in validate-once mode, from a record with magic not GOOD  *)
(* and image_ok not SET, if the header loads, the validator returns        *)
(* FIH_SUCCESS and both store writes succeed, the attempt calls the        *)
(* validator, boot_write_magic and boot_write_image_ok once each, leaves   *)
(* the record {GOOD, SET}, returns FIH_SUCCESS and fills the response      *)
(* with the region's device id and offset (stated for the attempts whose   *)
(* region was opened).                                                     *)
(***************************************************************************)
OnceFirstTrust ==
    /\ cfg.validate = "once"
    /\ pc = "done"
    /\ swap0.magic # BOOT_MAGIC_GOOD
    /\ swap0.image_ok # BOOT_FLAG_SET
    /\ Returned("boot_image_load_header", 0)
    /\ Returned("bootutil_img_validate", FIH_SUCCESS)
    /\ Returned("boot_write_magic", 0)
    /\ Returned("boot_write_image_ok", 0)

OnceFirstTrustOutcome ==
    /\ Count("bootutil_img_validate") = 1
    /\ Count("boot_write_magic") = 1
    /\ Count("boot_write_image_ok") = 1
    /\ swap = Trusted
    /\ ret = FIH_SUCCESS
    /\ rsp.br_flash_dev_id = Region.dev_id
    /\ rsp.br_image_off = Region.off

C9_UnverifiedToTrusted == (Opened /\ OnceFirstTrust) => OnceFirstTrustOutcome

(***************************************************************************)
(* C9 amended: the same, provided also that every configured evidence      *)
(* recording call (boot_save_boot_status, boot_save_shared_data) succeeds; *)
(* when one of them fails the record is {GOOD, SET} all the same, boot_go  *)
(* returns that call's nonzero code and the response is not filled.        *)
(***************************************************************************)
C9_UnverifiedToTrustedEvidenceOk ==
    OnceFirstTrust =>
       /\ Count("bootutil_img_validate") = 1
       /\ Count("boot_write_magic") = 1
       /\ Count("boot_write_image_ok") = 1
       /\ swap = Trusted
       /\ IF EvidenceFailed
          THEN ret = rc /\ rc # 0 /\ ret # FIH_SUCCESS /\ rsp = RspUnset
          ELSE OnceFirstTrustOutcome

C9_Witness ==
    /\ Opened
    /\ OnceFirstTrust
    /\ ~EvidenceFailed
    /\ OnceFirstTrustOutcome
    /\ swap0.magic = BOOT_MAGIC_UNSET
    /\ swap0.image_ok = BOOT_FLAG_UNSET

(***************************************************************************)
(* C10: in validate-once mode, starting from a record that is not          *)
(* {GOOD, SET}, every attempt in which boot_go returns FIH_SUCCESS comes   *)
(* after a call of the validator that returned FIH_SUCCESS, in the same or *)
(* in an earlier attempt; the record is {GOOD, SET} only if the validator  *)
(* has succeeded at least once.                                            *)
(***************************************************************************)
C10_SuccessOnlyAfterValidation ==
    cfg.validate = "once" =>
       /\ (pc = "done" /\ ret = FIH_SUCCESS) => validated
       /\ swap = Trusted => validated
       /\ Returned("boot_image_validate_once", FIH_SUCCESS) => validated

C10_Witness ==
    /\ Opened
    /\ cfg.validate = "once"
    /\ attempt > 1
    /\ pc = "done"
    /\ ret = FIH_SUCCESS
    /\ Count("bootutil_img_validate") = 0
    /\ validated


(***************************************************************************)
(* C11: in every mode bootutil_img_validate is invoked at most once per    *)
(* call of boot_go, and after it returned a value other than FIH_SUCCESS   *)
(* the attempt makes no further validation, no store write, no evidence    *)
(* recording and no response assembly.                                     *)
(***************************************************************************)
AfterRejectionOps ==
    {"bootutil_img_validate", "boot_write_magic", "boot_write_image_ok",
     "boot_save_boot_status", "boot_save_shared_data",
     "flash_area_get_device_id", "flash_area_get_off"}

C11_VerificationFailureFinal ==
    /\ Count("bootutil_img_validate") <= 1
    /\ Count("boot_image_validate") <= 1
    /\ \A i \in DOMAIN calls :
          (calls[i].op = "bootutil_img_validate" /\ calls[i].ret # FIH_SUCCESS) =>
             /\ \A j \in DOMAIN calls : j > i => calls[j].op \notin AfterRejectionOps
             /\ rsp = RspUnset
             /\ pc \in {"out", "done"}

C11_Witness ==
    /\ Opened
    /\ Failed("bootutil_img_validate", FIH_SUCCESS)
    /\ cfg.measured_boot
    /\ pc = "done"


(***************************************************************************)
(* C12: if flash_area_open fails, the attempt executes none of header      *)
(* load, staging, authentication, swap-state access, evidence recording    *)
(* and response assembly on the unopened region, and boot_go never         *)
(* returns FIH_SUCCESS.                                                    *)
(***************************************************************************)
C12_OpenFailureFatal ==
    Failed("flash_area_open", 0) =>
       /\ \A i \in DOMAIN calls : calls[i].op = "flash_area_open"
       /\ rsp = RspUnset
       /\ ~(pc = "done" /\ ret = FIH_SUCCESS)


(***************************************************************************)
(* C13: when boot_load_image_to_sram fails, the attempt is aborted with    *)
(* FIH_FAILURE without running the Authenticate step, and a partially      *)
(* staged copy is removed, so that no partially staged image remains       *)
(* after the attempt.                                                      *)
(***************************************************************************)
C13_StagingFailureUnstaged ==
    (Opened /\ Failed("boot_load_image_to_sram", 0) /\ pc = "done") =>
       /\ ret = FIH_FAILURE
       /\ Count("bootutil_img_validate") = 0
       /\ Count("boot_image_validate") = 0
       /\ Count("boot_image_validate_once") = 0
       /\ Count("boot_read_swap_state") = 0
       /\ sram = "none"


(***************************************************************************)
(* C14: the success sentinel FIH_SUCCESS and the failure sentinel          *)
(* FIH_FAILURE differ in more than one bit: no single-bit corruption of    *)
(* one of them yields the other.                                           *)
(***************************************************************************)
OtherSentinel(s) == IF s = FIH_SUCCESS THEN FIH_FAILURE ELSE FIH_SUCCESS

C14_SentinelsOneBitApart ==
    /\ FIH_NOT_EQ(FIH_SUCCESS, FIH_FAILURE)
    /\ (pc = "fih" /\ fault.n = 1) => fih_rc # OtherSentinel(fault.of)

C14_Witness ==
    /\ pc = "fih"
    /\ fault.n = 1
    /\ fault.of = FIH_FAILURE
    /\ fih_rc = FIH_FAILURE - 1


(***************************************************************************)
(* C15: across any sequence of attempts in any mode, no step changes magic *)
(* away from GOOD or image_ok away from SET, the record changes only in a  *)
(* step that is a successful boot_write_magic or boot_write_image_ok, and  *)
(* once the record is {GOOD, SET} it stays {GOOD, SET}.                    *)
(***************************************************************************)
StoreWritten ==
    \E i \in DOMAIN calls' :
       /\ i > Len(calls)
       /\ calls'[i].op \in {"boot_write_magic", "boot_write_image_ok"}
       /\ calls'[i].ret = 0

C15_RecordNeverDowngraded ==
    [][ /\ swap.magic = BOOT_MAGIC_GOOD => swap'.magic = BOOT_MAGIC_GOOD
        /\ swap.image_ok = BOOT_FLAG_SET => swap'.image_ok = BOOT_FLAG_SET
        /\ swap = Trusted => swap' = Trusted
        /\ swap' # swap =>
              /\ pc \in {"once_write_magic", "once_write_image_ok"}
              /\ StoreWritten ]_vars

C15_Witness ==
    /\ Opened
    /\ cfg.validate = "once"
    /\ attempt > 1
    /\ swap0 = Trusted
    /\ swap = Trusted
    /\ pc = "done"


(***************************************************************************)
(* C16: in validate-once mode boot_write_magic is called only when the     *)
(* record read at the start of the attempt had magic not GOOD and only     *)
(* after the validator returned FIH_SUCCESS; boot_write_image_ok is called *)
(* only after the validator returned FIH_SUCCESS and after boot_write_magic*)
(* (when it was needed) succeeded; if boot_write_magic fails,              *)
(* boot_write_image_ok is not called and the result is FIH_FAILURE; if     *)
(* boot_write_image_ok fails, the result is FIH_FAILURE.                   *)
(***************************************************************************)
Before(i, op, r) ==
    \E j \in 1..(i - 1) : calls[j].op = op /\ calls[j].ret = r

OnceResultIsFailure ==
    /\ Count("boot_image_validate_once") = 1
    /\ Returned("boot_image_validate_once", FIH_FAILURE)
    /\ fih_rc = FIH_FAILURE
    /\ pc \in {"out", "done"}
    /\ pc = "done" => ret = FIH_FAILURE

C16_StoreWriteSequencing ==
    /\ \A i \in DOMAIN calls :
          calls[i].op = "boot_write_magic" =>
             /\ cfg.validate = "once"
             /\ Before(i, "boot_read_swap_state", 0)
             /\ state = swap0
             /\ state.magic # BOOT_MAGIC_GOOD
             /\ Before(i, "bootutil_img_validate", FIH_SUCCESS)
    /\ \A i \in DOMAIN calls :
          calls[i].op = "boot_write_image_ok" =>
             /\ cfg.validate = "once"
             /\ Before(i, "bootutil_img_validate", FIH_SUCCESS)
             /\ state.magic # BOOT_MAGIC_GOOD => Before(i, "boot_write_magic", 0)
             /\ ~Failed("boot_write_magic", 0)
    /\ Count("boot_write_magic") <= 1
    /\ Count("boot_write_image_ok") <= 1
    /\ Failed("boot_write_magic", 0) =>
          (Count("boot_write_image_ok") = 0 /\ OnceResultIsFailure)
    /\ Failed("boot_write_image_ok", 0) => OnceResultIsFailure

C16_Witness ==
    /\ Opened
    /\ Failed("boot_write_magic", 0)
    /\ pc = "done"
    /\ ret = FIH_FAILURE


(***************************************************************************)
(* C17 as stated: after an attempt in validate-once mode that wrote the    *)
(* magic and then failed to write image_ok, the next attempt runs the      *)
(* validator exactly once, does not call boot_write_magic and calls        *)
(* boot_write_image_ok; if the validator and that write succeed, the       *)
(* record becomes {GOOD, SET} and the attempt returns FIH_SUCCESS.  Stated *)
(* for the attempts whose region was opened and in which the validator and *)
(* the write did succeed.                                                  *)
(***************************************************************************)
Recovering ==
    cfg.validate = "once" /\ prev_partial /\ swap0.image_ok # BOOT_FLAG_SET

RecoveryWritten ==
    /\ Recovering
    /\ pc = "done"
    /\ Returned("bootutil_img_validate", FIH_SUCCESS)
    /\ Returned("boot_write_image_ok", 0)

C17_PartialWriteRecovered ==
    (Opened /\ RecoveryWritten) =>
       /\ Count("bootutil_img_validate") = 1
       /\ Count("boot_write_magic") = 0
       /\ Count("boot_write_image_ok") = 1
       /\ swap = Trusted
       /\ ret = FIH_SUCCESS

(***************************************************************************)
(* C17 amended: the partial write leaves magic GOOD; when it leaves        *)
(* image_ok not SET, the next attempt, once boot_read_swap_state has succeeded, runs the     *)
(* validator exactly once, never calls boot_write_magic, and calls         *)
(* boot_write_image_ok once if the validator succeeded; if that write      *)
(* succeeds too the record becomes {GOOD, SET}, and the attempt returns    *)
(* FIH_SUCCESS provided every configured evidence recording call succeeds  *)
(* (otherwise it returns that call's nonzero code).  From every reachable  *)
(* record value, an attempt in which every collaborator succeeds returns   *)
(* FIH_SUCCESS and leaves {GOOD, SET}.                                     *)
(***************************************************************************)
AllSucceeded ==
    \A i \in DOMAIN calls :
       \/ calls[i].op \in {"flash_area_get_device_id", "flash_area_get_off"}
       \/ calls[i].ret =
             (IF calls[i].op \in {"bootutil_img_validate", "boot_image_validate",
                                  "boot_image_validate_once"}
              THEN FIH_SUCCESS ELSE 0)

C17_PartialWriteRecoveredEvidenceOk ==
    /\ prev_partial => swap0.magic = BOOT_MAGIC_GOOD
    /\ (Recovering /\ Returned("boot_read_swap_state", 0)
                   /\ Count("boot_image_validate_once") = 1) =>
          /\ Count("bootutil_img_validate") = 1
          /\ Count("boot_write_magic") = 0
          /\ Count("boot_write_image_ok") =
                (IF Returned("bootutil_img_validate", FIH_SUCCESS) THEN 1 ELSE 0)
    /\ RecoveryWritten =>
          /\ swap = Trusted
          /\ IF EvidenceFailed
             THEN ret = rc /\ rc # 0 /\ ret # FIH_SUCCESS
             ELSE ret = FIH_SUCCESS
    /\ (cfg.validate = "once" /\ pc = "done" /\ AllSucceeded) =>
          (ret = FIH_SUCCESS /\ swap = Trusted)

C17_Witness ==
    /\ Opened
    /\ RecoveryWritten
    /\ attempt > 1
    /\ swap0 = [magic |-> BOOT_MAGIC_GOOD, image_ok |-> BOOT_FLAG_UNSET]
    /\ swap = Trusted
    /\ ret = FIH_SUCCESS


(***************************************************************************)
(* C18: within one attempt the collaborator calls come in the order open,  *)
(* header load, staging, authentication, evidence recording, response      *)
(* assembly, close: the evidence calls come only after the Authenticate    *)
(* step returned FIH_SUCCESS (or in skip mode), the response is assembled  *)
(* only after every configured evidence call returned 0, and               *)
(* flash_area_close is the last call of a finished attempt (stated for the *)
(* attempts whose region was opened).                                      *)
(***************************************************************************)
EvidenceOps == {"boot_save_boot_status", "boot_save_shared_data"}
RspOps == {"flash_area_get_device_id", "flash_area_get_off"}

C18_StepOrdering ==
    Opened =>
       /\ calls[1].op = "flash_area_open"
       /\ \A i \in DOMAIN calls :
             /\ calls[i].op = "boot_image_load_header" => i = 2
             /\ calls[i].op = "boot_load_image_to_sram" => i = 3
             /\ calls[i].op \in EvidenceOps =>
                   \/ cfg.validate = "skip"
                   \/ Before(i, AuthOp, FIH_SUCCESS)
             /\ calls[i].op \in RspOps =>
                   /\ cfg.measured_boot => Before(i, "boot_save_boot_status", 0)
                   /\ cfg.data_sharing => Before(i, "boot_save_shared_data", 0)
                   /\ \A j \in 1..(i - 1) :
                         calls[j].op \in EvidenceOps => calls[j].ret = 0
             /\ calls[i].op = "flash_area_close" => i = Len(calls)
       /\ pc = "done" => calls[Len(calls)].op = "flash_area_close"


(***************************************************************************)
(* C19: in validate-once mode, when boot_read_swap_state fails,            *)
(* boot_image_validate_once returns FIH_FAILURE without calling the        *)
(* validator, boot_write_magic or boot_write_image_ok; the persisted       *)
(* record is unchanged and boot_go does not return FIH_SUCCESS.            *)
(***************************************************************************)
OnceReadFailed ==
    cfg.validate = "once" /\ Failed("boot_read_swap_state", 0)

C19_ReadFailureRejects ==
    OnceReadFailed =>
       /\ Count("bootutil_img_validate") = 0
       /\ Count("boot_image_validate") = 0
       /\ Count("boot_write_magic") = 0
       /\ Count("boot_write_image_ok") = 0
       /\ Count("boot_image_validate_once") = 1
       /\ Returned("boot_image_validate_once", FIH_FAILURE)
       /\ swap = swap0
       /\ rsp = RspUnset
       /\ pc = "done" => ret # FIH_SUCCESS

C19_Witness ==
    /\ Opened
    /\ OnceReadFailed
    /\ swap0 = [magic |-> BOOT_MAGIC_UNSET, image_ok |-> BOOT_FLAG_UNSET]
    /\ pc = "done"
    /\ ret = FIH_FAILURE


(***************************************************************************)
(* C20: after boot_image_load_header has filled the header, the only       *)
(* change this code makes to it is the clearing of the encryption flag     *)
(* bits in boot_image_validate, and only for a header marked encrypted: a  *)
(* header not marked encrypted is unchanged by boot_image_validate, every  *)
(* other flag and field is always unchanged, and on the validate-once      *)
(* Trusted path the header the response refers to is the header as loaded. *)
(***************************************************************************)
EncryptionBits(flags) == BitAnd(flags, ENCRYPTIONFLAGS, FlagBits)

LoadedFlags ==
    {calls[i].arg : i \in {j \in DOMAIN calls :
                             calls[j].op = "boot_image_load_header"}}

HeaderStep ==
    _hdr' # _hdr =>
       \/ pc = "load_header"
       \/ pc \in {"done", "panic"} /\ pc' = "open"
       \/ /\ pc \in {"validate", "once_validate"}
          /\ IS_ENCRYPTED(_hdr)
          /\ _hdr' = [_hdr EXCEPT !.ih_flags = @ - EncryptionBits(@)]

HeaderAsLoaded ==
    /\ Returned("boot_image_load_header", 0) =>
          \E f \in LoadedFlags :
             /\ _hdr.ih_flags \in {f, f - EncryptionBits(f)}
             /\ (~Encrypted(f) \/ Count("boot_image_validate") = 0)
                   => _hdr.ih_flags = f
    /\ (OnceTrustedRead /\ rsp # RspUnset) =>
          /\ rsp.br_hdr = HDR_ADDR
          /\ Count("boot_image_validate") = 0
          /\ _hdr.ih_flags \in LoadedFlags

C20_HeaderOnlyLosesEncryptionFlags == [][HeaderStep]_vars /\ []HeaderAsLoaded

C20_Witness ==
    /\ Opened
    /\ pc = "done"
    /\ ret = FIH_SUCCESS
    /\ rsp.br_hdr = HDR_ADDR
    /\ LoadedFlags = {IMAGE_F_PIC + IMAGE_F_ENCRYPTED_AES256}
    /\ Count("boot_image_validate") = 1
    /\ _hdr.ih_flags = IMAGE_F_PIC

====
